---------------------------- MODULE Spec2Model ----------------------------
(***************************************************************************)
(* The tamper-evident audit log of project-sisyphean:                      *)
(*   src/audit_logger.py  the appender, audit_log()                        *)
(*   src/verify_log.py    the verifier, a script run over logs/audit.log   *)
(* and the code of the bot that calls the appender or keeps state beside   *)
(* it:                                                                     *)
(*   src/permissions.py   has_permission(), which logs every denial        *)
(*   src/bot.py           the SAM/HQ controls and the staff assign command *)
(*   src/task_store.py    TaskStore, the tasks table                       *)
(*                                                                         *)
(* Representation.                                                         *)
(*  - The log file is a sequence of lines.  A line is a record with a      *)
(*    field kind: "json" (a complete, newline-terminated line holding a    *)
(*    JSON object, field obj), "blank" (an empty or whitespace-only        *)
(*    line), "partial" (an unterminated fragment of a line, of bytes       *)
(*    bytes, that does not parse), "garbage" (a terminated line of bytes   *)
(*    bytes that does not parse), "scalar" (a JSON number, null or         *)
(*    boolean), "list" (a JSON array) or "open" (a complete JSON object    *)
(*    at the end of the file, with no newline after it).                   *)
(*  - A JSON object is a TLA+ record; a key is present iff it is in the    *)
(*    record's DOMAIN.  A nullable JSON scalar is <<>> (null) or <<v>>.    *)
(*    A JSON object used as a value (details) is a sequence of             *)
(*    <<key, value>> pairs in insertion order.  A value is a string,       *)
(*    except under the key "geo", where it is a mapping again.  A key of   *)
(*    a Python dict that is an int is kept as a token ("int:2"); in JSON   *)
(*    text every key is a string ("2").                                    *)
(*  - SHA-256 and HMAC-SHA-256 are symbolic and collision-free: the        *)
(*    digest of prev_hash + payload_str, where prev_hash is itself a       *)
(*    digest or the sentinel, is the sequence of the payloads hashed so    *)
(*    far; the 64-zero sentinel is the empty sequence.                     *)
(***************************************************************************)
EXTENDS Integers, Sequences, FiniteSets, TLC

\* ------------------------------------------------------------------ bounds

\* The longest log (in lines) the appender is run to.
MaxLines == 3

\* ---------------------------------------------------------- JSON values

None == <<>>

Some(v) == <<v>>

\* "0" * 64
Sentinel == <<>>

\* ------------------------------------------------------------- inputs

Alice == [id |-> 42, name |-> "alice"]

\* actor: None, or an identity with an id and a display label
Users == {Some(Alice)}

Events == {"login"}

\* A string of BigTextLen characters ("a" * 5000), kept as a token.
BigText == "a*5000"

BigTextLen == 5000

\* details arguments: None, or a mapping as a sequence of <<key, value>>
DetailsArgs ==
    { None,
      Some(<< <<"ip", "10.0.0.1">> >>),
      Some(<< <<"x", BigText>> >>) }

NoSecret == ""

\* values of AUDIT_HMAC_SECRET
Secrets == {NoSecret, "k1"}

\* --------------------------------------------------------- audit_logger.py

\* _get_secret: the environment value, b"" when unset or empty
GetSecret(env) == env

\* the keys of a dict that are ints: 2 and 10
IntKeys == {"int:2", "int:10"}

\* the key whose value is a mapping
IsMappingKey(k) == k = "geo"

\* sorted() on the keys that occur: ints in numeric order, strings in
\* Python's string order (a dict with keys of both kinds cannot be sorted)
KeyRank(k) ==
    CASE k = "int:2" -> 1
      [] k = "int:10" -> 2
      [] k = "10" -> 3
      [] k = "2" -> 4
      [] k = "base" -> 5
      [] k = "command" -> 6
      [] k = "error" -> 7
      [] k = "geo" -> 8
      [] k = "ip" -> 9
      [] k = "permission" -> 10
      [] k = "reason" -> 11
      [] k = "target" -> 12
      [] k = "target_id" -> 13
      [] k = "unit_role" -> 14
      [] k = "unit_role_id" -> 15
      [] k = "x" -> 16
      [] OTHER -> 17

RECURSIVE InsertPair(_, _)
InsertPair(sorted, pair) ==
    IF sorted = <<>> THEN <<pair>>
    ELSE IF KeyRank(pair[1]) < KeyRank(Head(sorted)[1])
         THEN <<pair>> \o sorted
         ELSE <<Head(sorted)>> \o InsertPair(Tail(sorted), pair)

\* seeded fault: sort_keys=True left out
SortKeys_Keep(pairs) == pairs

\* sort_keys=True: the items sorted by key, at every level
RECURSIVE SortKeys(_)
SortKeys(pairs) ==
    IF pairs = <<>> THEN <<>>
    ELSE LET h == Head(pairs)
             item == IF IsMappingKey(h[1]) THEN <<h[1], SortKeys(h[2])>> ELSE h
         IN  InsertPair(SortKeys(Tail(pairs)), item)

\* the JSON text of a key: json.dumps writes the int key 2 as "2"
KeyText(k) ==
    CASE k = "int:2" -> "2"
      [] k = "int:10" -> "10"
      [] OTHER -> k

\* json.dumps on a mapping, as far as its keys go: every key becomes a string
RECURSIVE DumpKeys(_)
DumpKeys(pairs) ==
    [ i \in 1..Len(pairs) |->
        << KeyText(pairs[i][1]),
           IF IsMappingKey(pairs[i][1]) THEN DumpKeys(pairs[i][2]) ELSE pairs[i][2] >> ]

\* seeded fault: critical left out of the payload that is hashed and signed
CanonicalJson_NoCritical(base) ==
    << <<"details", DumpKeys(SortKeys(base.details))>>,
       <<"event", base.event>>,
       <<"timestamp", base.timestamp>>,
       <<"user_id", base.user_id>>,
       <<"username", base.username>> >>

\* _canonical_json: json.dumps(obj, sort_keys=True, separators=(",", ":"))
\* of the six-key base payload: the keys in sorted order, details sorted too
CanonicalJson(base) ==
    << <<"critical", base.critical>>,
       <<"details", DumpKeys(SortKeys(base.details))>>,
       <<"event", base.event>>,
       <<"timestamp", base.timestamp>>,
       <<"user_id", base.user_id>>,
       <<"username", base.username>> >>

\* seeded fault: the HMAC taken of the empty message
Sign_KeyOnly(payload_str, secret) ==
    IF secret = NoSecret THEN <<>> ELSE <<secret, <<>> >>

\* _sign: "" without a secret, else the HMAC of the payload under the secret
Sign(payload_str, secret) ==
    IF secret = NoSecret THEN <<>> ELSE <<secret, payload_str>>

\* hashlib.sha256((prev + payload).encode("utf-8")).hexdigest()
Sha256Hex(prev, payload) == Append(prev, payload)

\* _chain_hash: sha256(prev_hash + payload_str)
ChainHash(prev_hash, payload_str) == Sha256Hex(prev_hash, payload_str)

\* audit_log, lines 68-75: the base payload
Base(ts, event, user, details, critical) ==
    [ timestamp |-> Some(ts),
      event     |-> Some(event),
      critical  |-> critical,
      user_id   |-> IF user = None THEN None ELSE Some(user[1].id),
      username  |-> IF user = None THEN None ELSE Some(user[1].name),
      details   |-> IF details = None \/ details[1] = <<>> THEN <<>> ELSE details[1] ]

\* seeded fault: the new chain hash stored as prev_chain_hash too
Entry_PrevFromChain(base, prev_hash, secret) ==
    [ timestamp |-> base.timestamp,
      event     |-> base.event,
      critical  |-> base.critical,
      user_id   |-> base.user_id,
      username  |-> base.username,
      details   |-> base.details,
      prev_chain_hash |-> ChainHash(prev_hash, CanonicalJson(base)),
      chain_hash      |-> ChainHash(prev_hash, CanonicalJson(base)),
      signature_hmac_sha256 |-> Sign(CanonicalJson(base), secret) ]

\* audit_log, lines 78-87: the entry written for base after prev_hash
Entry(base, prev_hash, secret) ==
    [ timestamp |-> base.timestamp,
      event     |-> base.event,
      critical  |-> base.critical,
      user_id   |-> base.user_id,
      username  |-> base.username,
      details   |-> base.details,
      prev_chain_hash |-> prev_hash,
      chain_hash      |-> ChainHash(prev_hash, CanonicalJson(base)),
      signature_hmac_sha256 |-> Sign(CanonicalJson(base), secret) ]

\* ------------------------------------------------------------ the file

VARIABLES
    exists,     \* whether logs/audit.log exists
    file,       \* its content: a sequence of lines
    env,        \* AUDIT_HMAC_SECRET of the appending process
    ap,         \* per appender: where it is in audit_log, and its locals
    v,          \* the verifier script's position and variables
    now,        \* the wall clock, in ticks: datetime.utcnow()
    orig,       \* the file as it was before it was tampered with
    tamper,     \* what an attacker did to the file
    result,     \* how the latest audit_log call ended, and what it met
    logdir,     \* whether the directory logs/ exists
    call,       \* how the latest call into the bot's own code ended
    requests,   \* the requests sent to the Rust+ service, in order
    member,     \* the roles of the member a staff command is aimed at
    tasks       \* the rows of the tasks table, by id

vars == <<exists, file, env, ap, v, now, orig, tamper, result, logdir,
          call, requests, member, tasks>>

\* what the actions of the audit log leave alone
bot == <<call, requests, member, tasks>>

JsonLine(obj) == [kind |-> "json", obj |-> obj]

BlankLine == [kind |-> "blank"]

\* an unterminated piece of a line: the first bytes of a record
PartialLine(bytes) == [kind |-> "partial", bytes |-> bytes]

\* a terminated line that json.loads rejects
GarbageLine(bytes) == [kind |-> "garbage", bytes |-> bytes]

\* a JSON object at the end of the file with no newline after it
OpenLine(obj) == [kind |-> "open", obj |-> obj]

\* a line holding a JSON number, null or boolean: 42
ScalarLine == [kind |-> "scalar"]

\* a line holding a JSON array: []
ListLine == [kind |-> "list"]

Get(obj, key, default) == IF key \in DOMAIN obj THEN obj[key] ELSE default

\* --- the length in bytes of what json.dumps(entry, ensure_ascii=False) writes

StrBytes(s) == IF s = BigText THEN BigTextLen ELSE Len(s)

RECURSIVE PairsBytes(_)
PairsBytes(pairs) ==
    IF pairs = <<>> THEN 0
    ELSE Len(Head(pairs)[1]) + 4
         + (IF IsMappingKey(Head(pairs)[1])
            THEN 2 + PairsBytes(Head(pairs)[2])
            ELSE StrBytes(Head(pairs)[2]) + 2)
         + (IF Len(pairs) > 1 THEN 2 ELSE 0) + PairsBytes(Tail(pairs))

\* the decimal digits of the ids that occur
IntBytes(n) == IF n < 10 THEN 1 ELSE 2

ValueBytes(key, val) ==
    CASE key = "timestamp" -> IF val = None THEN 4 ELSE 29
      [] key \in {"event", "username"} ->
            IF val = None THEN 4 ELSE StrBytes(val[1]) + 2
      [] key = "critical" -> IF val THEN 4 ELSE 5
      [] key = "user_id" -> IF val = None THEN 4 ELSE IntBytes(val[1])
      [] key = "details" -> 2 + PairsBytes(val)
      [] key \in {"prev_chain_hash", "chain_hash"} -> 66
      [] key = "signature_hmac_sha256" -> IF val = <<>> THEN 2 ELSE 66

EntryKeys ==
    << "timestamp", "event", "critical", "user_id", "username", "details",
       "prev_chain_hash", "chain_hash", "signature_hmac_sha256" >>

RECURSIVE KeysBytes(_, _)
KeysBytes(obj, keys) ==
    IF keys = <<>> THEN 0
    ELSE (IF Head(keys) \in DOMAIN obj
          THEN Len(Head(keys)) + 4 + ValueBytes(Head(keys), obj[Head(keys)]) + 2
          ELSE 0)
         + KeysBytes(obj, Tail(keys))

JsonBytes(obj) == KeysBytes(obj, EntryKeys)

\* the bytes of 42 and of []
ShortValueBytes == 2

\* the bytes of a line without its newline
LineBytes(line) ==
    CASE line.kind \in {"json", "open"} -> JsonBytes(line.obj)
      [] line.kind = "blank" -> 0
      [] line.kind \in {"partial", "garbage"} -> line.bytes
      [] line.kind \in {"scalar", "list"} -> ShortValueBytes

\* every line but an unfinished one ends in a newline
Terminated(line) == line.kind \notin {"partial", "open"}

RECURSIVE FileSize(_)
FileSize(f) ==
    IF f = <<>> THEN 0
    ELSE FileSize(SubSeq(f, 1, Len(f) - 1)) + LineBytes(f[Len(f)])
         + (IF Terminated(f[Len(f)]) THEN 1 ELSE 0)

\* the offset of the first byte of line i
LineStart(f, i) == FileSize(SubSeq(f, 1, i - 1))

\* --- _last_chain_hash

BlockSize == 4096

Min(a, b) == IF a < b THEN a ELSE b

\* b"\n" in block, the block being the bytes from pos to the end
NewlineInBlock(f, pos) ==
    \E i \in 1..Len(f) :
        Terminated(f[i]) /\ LineStart(f, i) + LineBytes(f[i]) >= pos

\* lines 38-45: read backwards, a block at a time, until the block read so
\* far holds a newline; the result is where that block starts
RECURSIVE ScanBack(_, _)
ScanBack(f, pos) ==
    LET p2 == pos - Min(BlockSize, pos)
    IN  IF p2 = 0 \/ NewlineInBlock(f, p2) THEN p2 ELSE ScanBack(f, p2)

\* line 47: the lines of the file with a non-blank piece inside the block
NonBlankInBlock(f, pos) ==
    { i \in 1..Len(f) :
        f[i].kind # "blank" /\ LineStart(f, i) + LineBytes(f[i]) > pos }

Max(S) == CHOOSE x \in S : \A y \in S : y <= x

\* seeded fault: lines that do not parse are passed over, and the chain hash
\* of the last record that parses is returned
LastChainHash_LastParsable(ex, f) ==
    LET idx == { i \in 1..Len(f) : f[i].kind = "json" }
    IN  IF ~ex \/ idx = {} THEN Sentinel
        ELSE Get(f[Max(idx)].obj, "chain_hash", Sentinel)

LastChainHash(ex, f) ==
    IF ~ex THEN Sentinel
    ELSE IF FileSize(f) = 0 THEN Sentinel
    ELSE LET pos == ScanBack(f, FileSize(f))
             idx == NonBlankInBlock(f, pos)
         IN  IF idx = {} THEN Sentinel
             ELSE LET last == Max(idx)
                  IN  IF LineStart(f, last) < pos
                         \* the block starts inside the line: json.loads raises
                      THEN Sentinel
                      ELSE IF f[last].kind \notin {"json", "open"} THEN Sentinel
                      ELSE Get(f[last].obj, "chain_hash", Sentinel)

\* what json.loads reads from the line json.dumps(entry) wrote: the entry,
\* the keys of details strings now
Stored(entry) == [entry EXCEPT !.details = DumpKeys(@)]

\* seeded fault: the file opened with mode "w": the earlier lines are lost
WriteLine_Truncating(f, entry) == <<JsonLine(Stored(entry))>>

\* lines 89-90: open(LOG_FILE, "a") and write the entry and a newline; the
\* bytes go where the file ends, after an unterminated piece if there is one
WriteLine(f, entry) ==
    IF f # <<>> /\ ~Terminated(f[Len(f)])
    THEN [f EXCEPT ![Len(f)] =
            GarbageLine(LineBytes(f[Len(f)]) + JsonBytes(Stored(entry)))]
    ELSE Append(f, JsonLine(Stored(entry)))

\* --------------------------------------------------------- verify_log.py

\* canonical: json.dumps(base, sort_keys=True, separators=(",", ":"))
Canonical(base) ==
    << <<"critical", base.critical>>,
       <<"details", DumpKeys(SortKeys(base.details))>>,
       <<"event", base.event>>,
       <<"timestamp", base.timestamp>>,
       <<"user_id", base.user_id>>,
       <<"username", base.username>> >>

NoReport == <<>>

\* lines 11-15: the script's variables before the file is opened; read is
\* how many lines the file iterator has handed out
VIdle ==
    [ pc |-> "idle", read |-> 0, i |-> 0, prev |-> Sentinel,
      verified_count |-> 0, skipped_legacy |-> 0, report |-> NoReport ]

\* seeded fault: details left out of the rebuilt payload
VerifierBase_NoDetails(entry) ==
    [ timestamp |-> Get(entry, "timestamp", None),
      event     |-> Get(entry, "event", None),
      critical  |-> Get(entry, "critical", FALSE),
      user_id   |-> Get(entry, "user_id", None),
      username  |-> Get(entry, "username", None),
      details   |-> <<>> ]

\* lines 32-39: the payload rebuilt from the stored fields
VerifierBase(entry) ==
    [ timestamp |-> Get(entry, "timestamp", None),
      event     |-> Get(entry, "event", None),
      critical  |-> Get(entry, "critical", FALSE),
      user_id   |-> Get(entry, "user_id", None),
      username  |-> Get(entry, "username", None),
      details   |-> Get(entry, "details", <<>>) ]

\* seeded fault: a line without a signature is taken for a legacy entry too
IsLegacy_NeedsSignature(entry) ==
    \/ "chain_hash" \notin DOMAIN entry
    \/ "prev_chain_hash" \notin DOMAIN entry
    \/ "signature_hmac_sha256" \notin DOMAIN entry

\* line 27: a line without the chain fields is a legacy entry
IsLegacy(entry) ==
    "chain_hash" \notin DOMAIN entry \/ "prev_chain_hash" \notin DOMAIN entry

\* seeded fault: a record is tested against the prev_chain_hash it stores
\* itself, not against the chain hash of the record before it
Mismatch_OwnPrev(entry, prev, expected_chain) ==
    entry.chain_hash
        # Sha256Hex(entry.prev_chain_hash, Canonical(VerifierBase(entry)))

\* seeded fault: only the link is tested, not the recomputed hash
Mismatch_PrevOnly(entry, prev, expected_chain) ==
    entry.prev_chain_hash # prev

\* line 44: the test that breaks the chain
Mismatch(entry, prev, expected_chain) ==
    entry.prev_chain_hash # prev \/ entry.chain_hash # expected_chain

\* seeded fault: prev is never advanced
NextPrev_Keep(entry, prev) == prev

\* line 53
NextPrev(entry, prev) == entry.chain_hash

\* seeded fault: i += 1 placed after the legacy test: legacy lines are not counted
LineNo_SkipLegacy(i, line) ==
    IF line.kind = "json" /\ IsLegacy(line.obj) THEN i ELSE i + 1

\* seeded fault: i += 1 placed after the blank test: blank lines are not counted
LineNo_SkipBlank(i, line) == IF line.kind = "blank" THEN i ELSE i + 1

\* line 19: every line read is counted, before it is looked at
LineNo(i, line) == i + 1

\* lines 19-54: one pass of the loop body, over the line the iterator hands out
VerifyLine(s, line) ==
    LET n == LineNo(s.i, line)
        t == [s EXCEPT !.read = @ + 1, !.i = n]
    IN  CASE line.kind = "blank" -> t
             \* line 24: json.loads raises
          [] line.kind \in {"partial", "garbage"} -> [t EXCEPT !.pc = "error"]
             \* line 27: "chain_hash" not in 42 raises TypeError
          [] line.kind = "scalar" -> [t EXCEPT !.pc = "error"]
             \* line 27: "chain_hash" not in [] is true
          [] line.kind = "list" -> [t EXCEPT !.skipped_legacy = @ + 1]
          [] line.kind \in {"json", "open"} ->
               IF IsLegacy(line.obj)
               THEN [t EXCEPT !.skipped_legacy = @ + 1]
               ELSE LET expected_chain ==
                            Sha256Hex(s.prev, Canonical(VerifierBase(line.obj)))
                    IN  IF Mismatch(line.obj, s.prev, expected_chain)
                        THEN [t EXCEPT
                                !.pc = "fail",
                                !.report = << [ line |-> n,
                                     expected_prev |-> s.prev,
                                     found_prev |-> line.obj.prev_chain_hash,
                                     expected_chain |-> expected_chain,
                                     found_chain |-> line.obj.chain_hash ] >>]
                        ELSE [t EXCEPT
                                !.prev = NextPrev(line.obj, s.prev),
                                !.verified_count = @ + 1]

\* line 17: open(LOG_FILE, "r") raises when the file is missing
VerifyOpen(ex) == [VIdle EXCEPT !.pc = IF ex THEN "run" ELSE "error"]

\* seeded fault: a log without a verified entry is reported as a failure
VerifyEnd_FailsEmpty(s) ==
    [s EXCEPT !.pc = IF s.verified_count = 0 THEN "fail" ELSE "ok"]

\* lines 56-57: the loop ran off the end of the file with ok still True
VerifyEnd(s) == [s EXCEPT !.pc = "ok"]

RECURSIVE VerifyFrom(_, _)
VerifyFrom(s, f) ==
    IF s.pc # "run" THEN s
    ELSE IF s.read >= Len(f) THEN VerifyEnd(s)
    ELSE VerifyFrom(VerifyLine(s, f[s.read + 1]), f)

\* the whole script over a file that does not change meanwhile
Verify(ex, f) == VerifyFrom(VerifyOpen(ex), f)

\* the line the script reported the chain broken at (0: none)
FailedAt(r) == IF r.pc = "fail" THEN r.report[1].line ELSE 0

\* ------------------------------------------------------------ the system

Appenders == {1, 2}

ApIdle == [pc |-> "idle", base |-> <<>>, prev_hash |-> Sentinel]

NoTamper == [kind |-> "none", line |-> 0, arg |-> ""]

\* no call of audit_log was made yet
NoCall == [kind |-> "none", fault |-> "none"]

\* line 92: return entry.  fault says what the call met on its way: "none",
\* or "read" when the log could not be read for the last chain hash
Returned(entry, fault) == [kind |-> "returned", entry |-> entry, fault |-> fault]

\* an exception left audit_log: the caller gets no record.  fault is "open"
\* when open(LOG_FILE, "a") raised, "write" when the write was cut short
Raised(fault) == [kind |-> "raised", fault |-> fault]

\* no call into the bot's code was made yet
NoBotCall == [op |-> "none"]

\* A fresh log: logs/ exists (line 11: made when the module is imported),
\* audit.log is missing or empty.
Init ==
    /\ exists \in BOOLEAN
    /\ file = <<>>
    /\ env \in Secrets
    /\ ap = [a \in Appenders |-> ApIdle]
    /\ v = VIdle
    /\ now = 1
    /\ orig = <<>>
    /\ tamper = NoTamper
    /\ result = NoCall
    /\ logdir = TRUE
    /\ call = NoBotCall
    /\ requests = <<>>
    /\ member = {}
    /\ tasks = <<>>

\* audit_log(event, user, details, critical=critical), run to its end by an
\* appender that has the file to itself.  The clock is read once (line 69)
\* and has moved on by the next call.
AuditLogStep(event, user, details, critical) ==
    /\ logdir
    /\ tamper.kind = "none"
    /\ \A a \in Appenders : ap[a].pc = "idle"
    /\ Len(file) < MaxLines
    /\ LET base == Base(now, event, user, details, critical)
           prev_hash == LastChainHash(exists, file)
           entry == Entry(base, prev_hash, GetSecret(env))
       IN  /\ file' = WriteLine(file, entry)
           /\ result' = Returned(entry, "none")
    /\ exists' = TRUE
    /\ now' = now + 1
    /\ UNCHANGED <<env, ap, v, orig, tamper, logdir>>

\* audit_log called by code that is not the bot's
AuditLog(event, user, details, critical) ==
    AuditLogStep(event, user, details, critical) /\ UNCHANGED bot

SomeAuditLog ==
    \E event \in Events, user \in Users, details \in DetailsArgs,
       critical \in BOOLEAN :
        AuditLog(event, user, details, critical)

\* --- the verifier script, a line at a time

\* seeded fault: the log opened with mode "w": created, or emptied
VOpen_Truncating ==
    /\ v.pc = "idle"
    /\ v' = VerifyOpen(TRUE)
    /\ file' = <<>>
    /\ exists' = TRUE
    /\ UNCHANGED <<env, ap, now, orig, tamper, result, logdir, bot>>

\* line 17
VOpen ==
    /\ v.pc = "idle"
    /\ v' = VerifyOpen(exists)
    /\ UNCHANGED <<exists, file, env, ap, now, orig, tamper, result,
                   logdir, bot>>

\* lines 18-54: the next line the file holds now
VLine ==
    /\ v.pc = "run"
    /\ v.read < Len(file)
    /\ v' = VerifyLine(v, file[v.read + 1])
    /\ UNCHANGED <<exists, file, env, ap, now, orig, tamper, result,
                   logdir, bot>>

\* lines 56-57: end of file
VEnd ==
    /\ v.pc = "run"
    /\ v.read >= Len(file)
    /\ v' = VerifyEnd(v)
    /\ UNCHANGED <<exists, file, env, ap, now, orig, tamper, result,
                   logdir, bot>>

\* One appender and the verifier script, each run as the code runs it.
Next == SomeAuditLog \/ VOpen \/ VLine \/ VEnd

Spec == Init /\ [][Next]_vars

\* --- two appenders, the file shared without a lock

\* audit_log up to line 77: the clock read, the base built, and the last
\* chain hash read from the file
Call(a, event, user, details, critical) ==
    /\ tamper.kind = "none"
    /\ ap[a].pc = "idle"
    /\ Len(file) + Cardinality({b \in Appenders : ap[b].pc = "write"}) < MaxLines
    /\ ap' = [ap EXCEPT ![a] =
                [ pc |-> "write",
                  base |-> Base(now, event, user, details, critical),
                  prev_hash |-> LastChainHash(exists, file) ]]
    /\ now' = now + 1
    /\ UNCHANGED <<exists, file, env, v, orig, tamper, result, logdir, bot>>

\* audit_log from line 78 on: the entry computed from what was read, and
\* appended to the file as it is now
Write(a) ==
    /\ logdir
    /\ ap[a].pc = "write"
    /\ LET entry == Entry(ap[a].base, ap[a].prev_hash, GetSecret(env))
       IN  /\ file' = WriteLine(file, entry)
           /\ result' = Returned(entry, "none")
    /\ exists' = TRUE
    /\ ap' = [ap EXCEPT ![a] = ApIdle]
    /\ UNCHANGED <<env, v, now, orig, tamper, logdir, bot>>

SomeCall ==
    \E a \in Appenders, event \in Events, user \in Users,
       details \in DetailsArgs, critical \in BOOLEAN :
        Call(a, event, user, details, critical)

SomeWrite == \E a \in Appenders : Write(a)

NextRace == SomeCall \/ SomeWrite

\* Two processes calling audit_log on the same file.
SpecRace == Init /\ [][NextRace]_vars

\* ------------------------------------------------- an attacker on the file
\* What someone with write access to logs/audit.log can do to it between the
\* appends and a run of the verifier.  None of this is code of the program:
\* these are the edits the tamper-detection properties of the log are about.
\* One edit is made per behaviour; orig keeps the file as it was.

\* a line of the version that did not chain yet: no chain fields
LegacyLine ==
    JsonLine([ timestamp |-> Some(0), event |-> Some("login"),
               user_id |-> Some(42), username |-> Some("alice"),
               details |-> <<>> ])

\* the values an attacker writes into details
TamperDetails ==
    { << <<"ip", "10.6.6.6">> >>,
      << <<"ip", "10.0.0.1">>, <<"x", "1">> >> }

IsChained(line) == line.kind = "json" /\ ~IsLegacy(line.obj)

ChainedLines(f) == { k \in 1..Len(f) : IsChained(f[k]) }

Tampered(kind, k, arg) == [kind |-> kind, line |-> k, arg |-> arg]

InitTamper ==
    /\ exists \in BOOLEAN
    /\ file \in (IF exists THEN {<<>>, <<LegacyLine>>} ELSE {<<>>})
    /\ env \in Secrets
    /\ ap = [a \in Appenders |-> ApIdle]
    /\ v = VIdle
    /\ now = 1
    /\ orig = <<>>
    /\ tamper = NoTamper
    /\ result = NoCall
    /\ logdir = TRUE
    /\ call = NoBotCall
    /\ requests = <<>>
    /\ member = {}
    /\ tasks = <<>>

Edit(f, kind, k, arg) ==
    /\ tamper.kind = "none"
    /\ exists
    /\ file' = f
    /\ orig' = file
    /\ tamper' = Tampered(kind, k, arg)
    /\ UNCHANGED <<exists, env, ap, v, now, result, logdir, bot>>

\* the details of record k changed to another value, its hashes left alone
MutateDetails ==
    \E k \in ChainedLines(file), d \in TamperDetails :
        /\ SortKeys(d) # SortKeys(file[k].obj.details)
        /\ Edit([file EXCEPT ![k].obj.details = d], "mutate", k, "")

\* the lines of two adjacent chained records exchanged
SwapAdjacent ==
    \E k \in ChainedLines(file) :
        /\ k + 1 \in ChainedLines(file)
        /\ Edit([file EXCEPT ![k] = file[k + 1], ![k + 1] = file[k]],
                "swap", k, "")

InsertAt(f, k, line) == SubSeq(f, 1, k - 1) \o <<line>> \o SubSeq(f, k, Len(f))

\* what the verifier expects as prev_chain_hash when it comes to line k
ExpectedPrevAt(f, k) == Verify(TRUE, SubSeq(f, 1, k - 1)).prev

\* a record written by the attacker to follow prev, its hash computed as the
\* appender computes it (no secret is needed for that)
Continuation(prev) ==
    Entry(Base(0, "login", None, None, FALSE), prev, NoSecret)

\* the non-blank lines an attacker inserts before line k: a legacy-shaped
\* line, a copy of the line that follows, a well-formed record continuing the
\* chain at that place, and a record that claims the expected hash as both
\* its prev_chain_hash and its chain_hash
InsertableLines(f, k) ==
    LET prev == ExpectedPrevAt(f, k)
    IN  [ legacy |-> {LegacyLine},
          chained |->
            { f[j] : j \in ChainedLines(f) \cap {k} }
            \cup { JsonLine(Continuation(prev)) }
            \cup { JsonLine([Continuation(prev) EXCEPT !.chain_hash = prev]) } ]

\* one non-blank line inserted before line k, the other lines left alone
InsertLine ==
    \E k \in 1..Len(file), shape \in {"legacy", "chained"} :
        \E line \in InsertableLines(file, k)[shape] :
            Edit(InsertAt(file, k, line), "insert", k, shape)

\* the last K lines deleted
Truncate ==
    \E K \in 0..Len(file) :
        Edit(SubSeq(file, 1, Len(file) - K), "truncate", K, "")

\* lines k.. of f with prev_chain_hash and chain_hash recomputed from prev on,
\* as the appender computes them; the signatures are left as stored
RECURSIVE Rechain(_, _, _)
Rechain(f, k, prev) ==
    IF k > Len(f) THEN f
    ELSE IF ~IsChained(f[k]) THEN Rechain(f, k + 1, prev)
    ELSE LET chain == ChainHash(prev, CanonicalJson(VerifierBase(f[k].obj)))
         IN  Rechain([f EXCEPT ![k].obj.prev_chain_hash = prev,
                               ![k].obj.chain_hash = chain],
                     k + 1, chain)

\* the details of record k rewritten and the chain recomputed from there to
\* the end of the file, by someone who does not know the signing secret
ForgeTail ==
    \E k \in ChainedLines(file), d \in {<< <<"ip", "10.6.6.6">> >>} :
        /\ SortKeys(d) # SortKeys(file[k].obj.details)
        /\ Edit(Rechain([file EXCEPT ![k].obj.details = d], k,
                        file[k].obj.prev_chain_hash),
                "forge", k, "")

NextTamper ==
    \/ SomeAuditLog
    \/ MutateDetails
    \/ SwapAdjacent
    \/ InsertLine
    \/ Truncate
    \/ ForgeTail

\* The appender, then one edit of the file by an attacker.
SpecTamper == InitTamper /\ [][NextTamper]_vars

\* ------------------------------------------- a log found on disk, and faults
\* The appender on a log file that already holds lines it did not write, in
\* an environment where reading or opening the file can fail and a write can
\* be cut short (the disk fills, the process is killed).

\* the most lines the file holds before the first call
MaxForeign == 2

\* the bytes of a line of garbage
GarbageBytes == 7

\* lines the verifier and _last_chain_hash can meet that audit_log did not write
ForeignLines ==
    { BlankLine, LegacyLine, GarbageLine(GarbageBytes), ScalarLine, ListLine }

SeqsUpTo(S, n) == UNION { [1..k -> S] : k \in 0..n }

InitFaults ==
    /\ exists \in BOOLEAN
    /\ file \in (IF exists THEN SeqsUpTo(ForeignLines, MaxForeign) ELSE {<<>>})
    /\ env \in Secrets
    /\ ap = [a \in Appenders |-> ApIdle]
    /\ v = VIdle
    /\ now = 1
    /\ orig = <<>>
    /\ tamper = NoTamper
    /\ result = NoCall
    /\ logdir = TRUE
    /\ call = NoBotCall
    /\ requests = <<>>
    /\ member = {}
    /\ tasks = <<>>

\* audit_log when open(LOG_FILE, "rb") or a read raises inside
\* _last_chain_hash: lines 53-54 return the sentinel, the call goes on
AuditLogReadFails(event, user, details, critical) ==
    /\ exists
    /\ Len(file) < MaxLines
    /\ LET base == Base(now, event, user, details, critical)
           entry == Entry(base, Sentinel, GetSecret(env))
       IN  /\ file' = WriteLine(file, entry)
           /\ result' = Returned(entry, "read")
    /\ now' = now + 1
    /\ UNCHANGED <<exists, env, ap, v, orig, tamper, logdir, bot>>

\* seeded fault: the file is opened with mode "w" first, and emptied
AuditLogOpenFails_Emptied(event, user, details, critical) ==
    /\ now <= MaxLines
    /\ result' = Raised("open")
    /\ file' = <<>>
    /\ now' = now + 1
    /\ UNCHANGED <<exists, env, ap, v, orig, tamper, logdir, bot>>

\* audit_log when open(LOG_FILE, "a") raises: nothing catches it, and
\* nothing was written before line 89
AuditLogOpenFailsStep(event, user, details, critical) ==
    /\ now <= MaxLines
    /\ result' = Raised("open")
    /\ now' = now + 1
    /\ UNCHANGED <<exists, file, env, ap, v, orig, tamper, logdir>>

\* the same, called by code that is not the bot's
AuditLogOpenFails(event, user, details, critical) ==
    AuditLogOpenFailsStep(event, user, details, critical) /\ UNCHANGED bot

\* how much of the line got to the file when the write was cut short
CutBytes(entry) == JsonBytes(Stored(entry)) \div 2

\* the first bytes of a line put where the file ends
WritePiece(f, bytes) ==
    IF f # <<>> /\ ~Terminated(f[Len(f)])
    THEN [f EXCEPT ![Len(f)] = PartialLine(LineBytes(f[Len(f)]) + bytes)]
    ELSE Append(f, PartialLine(bytes))

\* audit_log when the write of line 90 stops part-way: the file is left
\* with an unterminated piece of the record, the caller gets no record
AuditLogCut(event, user, details, critical) ==
    /\ logdir
    /\ now <= MaxLines
    /\ Len(file) < MaxLines
    /\ LET base == Base(now, event, user, details, critical)
           prev_hash == LastChainHash(exists, file)
           entry == Entry(base, prev_hash, GetSecret(env))
       IN  file' = WritePiece(file, CutBytes(entry))
    /\ exists' = TRUE
    /\ result' = Raised("write")
    /\ now' = now + 1
    /\ UNCHANGED <<env, ap, v, orig, tamper, logdir, bot>>

\* the calls made where faults are looked at
FaultDetails == { None, Some(<< <<"x", BigText>> >>) }

SomeReadFails ==
    \E event \in Events, user \in Users, details \in FaultDetails :
        AuditLogReadFails(event, user, details, FALSE)

SomeOpenFails ==
    \E event \in Events, user \in Users, details \in FaultDetails :
        AuditLogOpenFails(event, user, details, FALSE)

SomeCut ==
    \E event \in Events, user \in Users, details \in FaultDetails :
        AuditLogCut(event, user, details, FALSE)

SomePlainCall ==
    \E event \in Events, user \in Users, details \in FaultDetails :
        AuditLog(event, user, details, FALSE)

NextFaults == SomePlainCall \/ SomeReadFails \/ SomeOpenFails \/ SomeCut

\* One appender on a log that may hold foreign lines, with I/O faults.
SpecFaults == InitFaults /\ [][NextFaults]_vars

\* --- a log that begins with lines of the version that did not chain yet

\* the most legacy lines the log begins with
MaxLegacy == 2

LegacyLog(L) == [k \in 1..L |-> LegacyLine]

InitLegacy ==
    /\ exists \in BOOLEAN
    /\ file \in (IF exists THEN { LegacyLog(L) : L \in 0..MaxLegacy } ELSE {<<>>})
    /\ env \in Secrets
    /\ ap = [a \in Appenders |-> ApIdle]
    /\ v = VIdle
    /\ now = 1
    /\ orig = <<>>
    /\ tamper = NoTamper
    /\ result = NoCall
    /\ logdir = TRUE
    /\ call = NoBotCall
    /\ requests = <<>>
    /\ member = {}
    /\ tasks = <<>>

\* One appender on a log that begins with legacy lines.
SpecLegacy == InitLegacy /\ [][SomeAuditLog]_vars

\* --- the verifier and the appender on any content

\* a first record as audit_log writes it on a fresh log
GoodRecord == JsonLine(Entry(Base(0, "login", None, None, FALSE), Sentinel, NoSecret))

\* the lines a log can hold before the script or the next call comes to it
ContentLines == ForeignLines \cup {GoodRecord}

InitContent ==
    /\ exists \in BOOLEAN
    /\ file \in (IF exists THEN SeqsUpTo(ContentLines, MaxForeign) ELSE {<<>>})
    /\ env = NoSecret
    /\ ap = [a \in Appenders |-> ApIdle]
    /\ v = VIdle
    /\ now = 1
    /\ orig = <<>>
    /\ tamper = NoTamper
    /\ result = NoCall
    /\ logdir = TRUE
    /\ call = NoBotCall
    /\ requests = <<>>
    /\ member = {}
    /\ tasks = <<>>

NextContent == SomePlainCall \/ VOpen \/ VLine \/ VEnd

\* The verifier script and one appender on a log of any content.
SpecContent == InitContent /\ [][NextContent]_vars

\* --- details of every shape

\* details arguments that differ in the order their keys were inserted, at
\* the top and inside the nested mapping, and details with int keys
CanonDetails ==
    { Some(<< <<"ip", "10.0.0.1">>, <<"geo", << <<"x", "1">>, <<"ip", "2">> >> >> >>),
      Some(<< <<"ip", "10.0.0.1">>, <<"geo", << <<"ip", "2">>, <<"x", "1">> >> >> >>),
      Some(<< <<"geo", << <<"x", "1">>, <<"ip", "2">> >> >>, <<"ip", "10.0.0.1">> >>),
      Some(<< <<"geo", << <<"ip", "2">>, <<"x", "1">> >> >>, <<"ip", "10.0.0.1">> >>),
      Some(<< <<"int:2", "a">>, <<"int:10", "b">> >>),
      Some(<< <<"int:10", "b">>, <<"int:2", "a">> >>) }

SomeCanonCall ==
    \E event \in Events, user \in Users, details \in CanonDetails :
        AuditLog(event, user, details, FALSE)

\* One appender called with details of every shape.
SpecCanon == Init /\ [][SomeCanonCall]_vars

\* --- the process around the appender

\* os.environ["AUDIT_HMAC_SECRET"] set or deleted while the process runs
SetEnv ==
    /\ \E s \in Secrets \ {env} : env' = s
    /\ UNCHANGED <<exists, file, ap, v, now, orig, tamper, result, logdir,
                   bot>>

\* the directory logs/ removed, with the log file in it, after the import
RemoveLogDir ==
    /\ logdir
    /\ logdir' = FALSE
    /\ exists' = FALSE
    /\ file' = <<>>
    /\ UNCHANGED <<env, ap, v, now, orig, tamper, result, bot>>

\* audit_log when logs/ is gone: os.path.exists is false (line 26), and
\* open(LOG_FILE, "a") raises FileNotFoundError; nothing makes the directory
SomeNoDirCall == ~logdir /\ SomeOpenFails

NextProcess == SomePlainCall \/ SetEnv \/ RemoveLogDir \/ SomeNoDirCall

\* One appender in a process whose environment and directory change.
SpecProcess == Init /\ [][NextProcess]_vars

\* --- blank lines put into the log

\* a blank line inserted before line k, or after the last line
InsertBlank ==
    /\ exists
    /\ Len(file) < MaxLines
    /\ \E k \in 1..(Len(file) + 1) : file' = InsertAt(file, k, BlankLine)
    /\ UNCHANGED <<exists, env, ap, v, now, orig, tamper, result, logdir, bot>>

NextBlank == SomeAuditLog \/ InsertBlank

\* One appender on a log into which blank lines are put.
SpecBlank == Init /\ [][NextBlank]_vars

\* --- a log that was edited, and appended to afterwards

\* The details of record k rewritten in place, hashes left alone, once.  The
\* file is saved as it was, or by an editor that does not end the last line
\* with a newline.
Rewrite ==
    /\ exists
    /\ orig = <<>>
    /\ \E k \in ChainedLines(file), d \in {<< <<"ip", "10.6.6.6">> >>},
          nl \in BOOLEAN :
          LET g == [file EXCEPT ![k].obj.details = d]
          IN  /\ SortKeys(d) # SortKeys(file[k].obj.details)
              /\ file' = IF nl THEN g
                         ELSE [g EXCEPT ![Len(g)] = OpenLine(g[Len(g)].obj)]
    /\ orig' = file
    /\ UNCHANGED <<exists, env, ap, v, now, tamper, result, logdir, bot>>

NextRewritten == SomePlainCall \/ Rewrite

\* One appender on a log that is edited once, at any time.
SpecRewritten == Init /\ [][NextRewritten]_vars

\* --- the fields of a record that are not hashed

\* obj without the key, and with one more key
Without(obj, key) == [x \in DOMAIN obj \ {key} |-> obj[x]]

WithKey(obj, key, val) ==
    [x \in DOMAIN obj \cup {key} |-> IF x = key THEN val ELSE obj[x]]

\* signature_hmac_sha256 of record k replaced by another value
ChangeSignature ==
    \E k \in ChainedLines(file), sig \in {<<>>, <<"k6", <<>>>>} :
        /\ "signature_hmac_sha256" \in DOMAIN file[k].obj
        /\ file[k].obj.signature_hmac_sha256 # sig
        /\ Edit([file EXCEPT ![k].obj.signature_hmac_sha256 = sig],
                "signature", k, "")

\* signature_hmac_sha256 deleted from record k
DeleteSignature ==
    \E k \in ChainedLines(file) :
        Edit([file EXCEPT ![k].obj = Without(@, "signature_hmac_sha256")],
             "nosignature", k, "")

\* a key that audit_log does not write added to record k
AddKey ==
    \E k \in ChainedLines(file) :
        Edit([file EXCEPT ![k].obj = WithKey(@, "note", "x")], "addkey", k, "")

\* what the verifier reads for a payload key that is missing (lines 33-38)
PayloadDefault ==
    [ timestamp |-> None, event |-> None, critical |-> FALSE,
      user_id |-> None, username |-> None, details |-> <<>> ]

\* a payload key deleted from record k whose value was what the verifier
\* reads for a missing one
DropDefaulted ==
    \E k \in ChainedLines(file), key \in DOMAIN PayloadDefault :
        /\ key \in DOMAIN file[k].obj
        /\ file[k].obj[key] = PayloadDefault[key]
        /\ Edit([file EXCEPT ![k].obj = Without(@, key)], "dropdefault", k, key)

NextFields ==
    \/ SomePlainCall
    \/ ChangeSignature
    \/ DeleteSignature
    \/ AddKey
    \/ DropDefaulted

\* The appender, then one edit of a field the hash does not cover.
SpecFields == Init /\ [][NextFields]_vars

\* --- a record deleted from the log

DeleteAt(f, k) == SubSeq(f, 1, k - 1) \o SubSeq(f, k + 1, Len(f))

\* the line of record k deleted, the other lines left alone
DeleteLine ==
    \E k \in ChainedLines(file) : Edit(DeleteAt(file, k), "delete", k, "")

NextDelete == SomeAuditLog \/ DeleteLine

\* The appender, then one record deleted by an attacker.
SpecDelete == Init /\ [][NextDelete]_vars

\* --- details that json.dumps rejects

\* a value json.dumps raises TypeError on: a set, kept as a token
NotJson == "set()"

UnserializableDetails ==
    { Some(<< <<"x", NotJson>> >>),
      Some(<< <<"ip", "10.0.0.1">>, <<"x", NotJson>> >>) }

\* whether json.dumps accepts the details argument
Serializable(details) ==
    details = None \/ \A i \in 1..Len(details[1]) : details[1][i][2] # NotJson

\* seeded fault: the record serialized into the opened file a key at a time
\* (json.dump(entry, f)): what comes before details is written by then
AuditLogUnserializable_Streamed(event, user, details, critical) ==
    /\ logdir
    /\ ~Serializable(details)
    /\ now <= MaxLines
    /\ file' = WritePiece(file, GarbageBytes)
    /\ exists' = TRUE
    /\ result' = Raised("serialize")
    /\ now' = now + 1
    /\ UNCHANGED <<env, ap, v, orig, tamper, logdir, bot>>

\* audit_log when _canonical_json(base) raises (line 78): the log was read
\* for the last chain hash (line 77) and is not opened for append (line 89)
AuditLogUnserializable(event, user, details, critical) ==
    /\ ~Serializable(details)
    /\ now <= MaxLines
    /\ result' = Raised("serialize")
    /\ now' = now + 1
    /\ UNCHANGED <<exists, file, env, ap, v, orig, tamper, logdir, bot>>

SomeUnserializable ==
    \E event \in Events, user \in Users, details \in UnserializableDetails,
       critical \in BOOLEAN :
        AuditLogUnserializable(event, user, details, critical)

NextSerialize == SomeAuditLog \/ SomeUnserializable

\* One appender, called with details that serialize and that do not.
SpecSerialize == Init /\ [][NextSerialize]_vars

\* ------------------------------------------------------- permissions.py

\* the permission keys the bot asks for
PermKeys == {"rust_control", "staff_manage"}

\* the role ids of the invoking user: a role that is configured, or one that
\* is not
UserRoles == {{1}, {2}}

\* the "permissions" object of staff_config.json, as load_permissions finds
\* it at a call: no key at all (also when the file is missing), or each key
\* with a list of role ids
Configs == {<<>>} \cup [PermKeys -> {{}, {1}}]

\* line 18: permissions.get(permission_key, [])
AllowedRoles(cfg, key) == IF key \in DOMAIN cfg THEN cfg[key] ELSE {}

\* seeded fault: every denial is given the reason missing_role
Decision_OneReason(cfg, roles, key) ==
    IF AllowedRoles(cfg, key) \cap roles # {} THEN "granted"
    ELSE "missing_role"

\* lines 20-38: what has_permission decides, and the reason it logs
Decision(cfg, roles, key) ==
    IF AllowedRoles(cfg, key) = {} THEN "no_roles_configured"
    ELSE IF roles \cap AllowedRoles(cfg, key) # {} THEN "granted"
    ELSE "missing_role"

\* the details of the permission_denied record, in the order of the literal
DeniedDetails(reason, key) ==
    Some(<< <<"reason", reason>>, <<"permission", key>> >>)

HasPermissionCall(cfg, roles, key, ret) ==
    [ op |-> "has_permission", key |-> key, allowed |-> AllowedRoles(cfg, key),
      roles |-> roles, ret |-> ret, at |-> now ]

\* has_permission(interaction, key) for a user with these roles: True
\* without a record, or audit_log("permission_denied", ...) and then False;
\* when audit_log raises nothing catches it
HasPermission(cfg, roles, key) ==
    LET d == Decision(cfg, roles, key)
    IN  IF d = "granted"
        THEN /\ call' = HasPermissionCall(cfg, roles, key, "True")
             /\ UNCHANGED <<exists, file, env, ap, v, now, orig, tamper,
                            result, logdir, requests, member, tasks>>
        ELSE /\ \/ /\ AuditLogStep("permission_denied", Some(Alice),
                                    DeniedDetails(d, key), FALSE)
                    /\ call' = HasPermissionCall(cfg, roles, key, "False")
                 \/ /\ AuditLogOpenFailsStep("permission_denied", Some(Alice),
                                             DeniedDetails(d, key), FALSE)
                    /\ call' = HasPermissionCall(cfg, roles, key, "raised")
             /\ UNCHANGED <<requests, member, tasks>>

SomeHasPermission ==
    \E cfg \in Configs, roles \in UserRoles, key \in PermKeys :
        HasPermission(cfg, roles, key)

\* the bot started on a fresh log, without a signing secret
InitBot == Init /\ exists /\ env = NoSecret

\* The bot asking for permissions, the log sometimes failing to open.
SpecPermissions == InitBot /\ [][SomeHasPermission]_vars

\* ------------------------------------- bot.py: the SAM and HQ controls

\* The most invocations of a handler that are followed.
MaxCommands == 2

\* the invocations so far
Invocations == IF "n" \in DOMAIN call THEN call.n ELSE 0

\* two of the fifteen handlers, which all have the same three steps: a slash
\* command, and a button of the panel of base "alpha"
Commands == {"sam_on", "hq_status_button"}

\* the request a handler sends: call_entity_action / handle_entity_action /
\* handle_entity_status with these arguments
EntityRequest(cmd) ==
    IF cmd = "sam_on" THEN [entity |-> "sam_main", action |-> "on"]
    ELSE [entity |-> "switch_hq", action |-> "status"]

\* the details of the handler's rust_control record
ControlDetails(cmd) ==
    IF cmd = "sam_on" THEN Some(<< <<"command", cmd>> >>)
    ELSE Some(<< <<"command", cmd>>, <<"base", "alpha">> >>)

\* whether an invocation is under way
Running == call.op = "command" /\ call.pc \in {"permitted", "audited"}

\* The handler is entered: await ensure_rust_permission(interaction).
\* Outside a server, or for a user that is not a Member, it answers and
\* returns False; else it asks has_permission(interaction, "rust_control").
CmdEnsure ==
    /\ ~Running
    /\ Invocations < MaxCommands
    /\ \E cmd \in Commands, guild \in BOOLEAN, cfg \in Configs,
          roles \in UserRoles :
          LET d == Decision(cfg, roles, "rust_control")
              c == [ op |-> "command", n |-> Invocations + 1, cmd |-> cmd,
                     guild |-> guild, decision |-> d,
                     sent |-> Len(requests), at |-> now, pc |-> "refused" ]
          IN  IF ~guild \/ d = "granted"
              THEN /\ call' = [c EXCEPT !.pc = IF guild THEN "permitted"
                                              ELSE "refused"]
                   /\ UNCHANGED <<exists, file, env, ap, v, now, orig, tamper,
                                  result, logdir>>
              ELSE \/ /\ AuditLogStep("permission_denied", Some(Alice),
                                      DeniedDetails(d, "rust_control"), FALSE)
                      /\ call' = c
                   \/ /\ AuditLogOpenFailsStep("permission_denied",
                              Some(Alice), DeniedDetails(d, "rust_control"),
                              FALSE)
                      /\ call' = [c EXCEPT !.pc = "raised"]
    /\ UNCHANGED <<requests, member, tasks>>

\* seeded fault: the handler goes on when the record could not be written
CmdAudit_Swallowed ==
    /\ call.op = "command"
    /\ call.pc = "permitted"
    /\ \/ AuditLogStep("rust_control", Some(Alice), ControlDetails(call.cmd),
                       FALSE)
       \/ AuditLogOpenFailsStep("rust_control", Some(Alice),
                                ControlDetails(call.cmd), FALSE)
    /\ call' = [call EXCEPT !.pc = "audited"]
    /\ UNCHANGED <<requests, member, tasks>>

\* audit_log("rust_control", interaction.user, {"command": ...}): the
\* statement after the permission test; an exception ends the handler
CmdAudit ==
    /\ call.op = "command"
    /\ call.pc = "permitted"
    /\ \/ /\ AuditLogStep("rust_control", Some(Alice),
                           ControlDetails(call.cmd), FALSE)
          /\ call' = [call EXCEPT !.pc = "audited"]
       \/ /\ AuditLogOpenFailsStep("rust_control", Some(Alice),
                                    ControlDetails(call.cmd), FALSE)
          /\ call' = [call EXCEPT !.pc = "raised"]
    /\ UNCHANGED <<requests, member, tasks>>

\* The rest of the handler: the interaction is deferred and the request goes
\* to the Rust+ service, unless RUSTPLUS_API_BASE is empty or the defer
\* raises; the answer is then shown to the user.
CmdRequest ==
    /\ call.op = "command"
    /\ call.pc = "audited"
    /\ \E sends \in BOOLEAN :
          requests' = IF sends THEN Append(requests, EntityRequest(call.cmd))
                      ELSE requests
    /\ call' = [call EXCEPT !.pc = "done"]
    /\ UNCHANGED <<exists, file, env, ap, v, now, orig, tamper, result, logdir,
                   member, tasks>>

NextRust == CmdEnsure \/ CmdAudit \/ CmdRequest

\* The bot handling SAM and HQ commands and buttons, one at a time.
SpecRust == InitBot /\ [][NextRust]_vars

\* --------------------------------------- bot.py: the staff assign command

\* role ids: the unit roles of the configuration, and the member status role
UnitRoles == {11, 12}

MemberRole == 20

\* role ids are ints in the code; in details they are kept as these strings
RoleName(rid) ==
    CASE rid = 11 -> "11" [] rid = 12 -> "12" [] OTHER -> "20"

\* how a request to Discord ends: done, discord.Forbidden, or another
\* exception (discord.HTTPException)
Outcomes == {"ok", "forbidden", "error"}

AssignDetails(unit) ==
    Some(<< <<"target_id", "7">>, <<"target", "bob">>,
            <<"unit_role_id", RoleName(unit)>>, <<"unit_role", "unit">> >>)

AssignErrorDetails == Some(<< <<"target_id", "7">>, <<"error", "HTTP 500">> >>)

\* where an exception raised inside the try block takes the handler: the
\* except discord.Forbidden clause only answers, the except Exception clause
\* logs staff_assign_error
Handler(outcome) == IF outcome = "forbidden" THEN "done" ELSE "except"

\* The bot on a fresh log; the target member has no unit role, or one, or
\* one and the member status role.
InitStaff ==
    /\ exists = TRUE
    /\ file = <<>>
    /\ env = NoSecret
    /\ ap = [a \in Appenders |-> ApIdle]
    /\ v = VIdle
    /\ now = 1
    /\ orig = <<>>
    /\ tamper = NoTamper
    /\ result = NoCall
    /\ logdir = TRUE
    /\ call = NoBotCall
    /\ requests = <<>>
    /\ member \in {{}, {11}, {11, MemberRole}}
    /\ tasks = <<>>

StaffRunning ==
    call.op = "staff_assign" /\ call.pc \notin {"done", "raised"}

\* lines 2559-2579: the guild and permission tests, the unit roles the member
\* has, and the target role, which may not be found
StaffStart ==
    /\ ~StaffRunning
    /\ Invocations < MaxCommands
    /\ \E unit \in UnitRoles, cfg \in Configs, found \in BOOLEAN :
          LET d == Decision(cfg, {1}, "staff_manage")
              c == [ op |-> "staff_assign", n |-> Invocations + 1,
                     unit |-> unit, to_remove |-> member \cap UnitRoles,
                     changed |-> FALSE, at |-> now, pc |-> "done" ]
          IN  IF d = "granted"
              THEN /\ call' = [c EXCEPT !.pc = IF found THEN "remove"
                                              ELSE "done"]
                   /\ UNCHANGED <<exists, file, env, ap, v, now, orig, tamper,
                                  result, logdir>>
              ELSE \/ /\ AuditLogStep("permission_denied", Some(Alice),
                                      DeniedDetails(d, "staff_manage"), FALSE)
                      /\ call' = c
                   \/ /\ AuditLogOpenFailsStep("permission_denied",
                              Some(Alice), DeniedDetails(d, "staff_manage"),
                              FALSE)
                      /\ call' = [c EXCEPT !.pc = "raised"]
    /\ UNCHANGED <<requests, member, tasks>>

\* lines 2581-2583: if to_remove: await member.remove_roles(*to_remove)
StaffRemove ==
    /\ call.op = "staff_assign"
    /\ call.pc = "remove"
    /\ IF call.to_remove = {}
       THEN /\ call' = [call EXCEPT !.pc = "add"]
            /\ UNCHANGED member
       ELSE \E o \in Outcomes :
              IF o = "ok"
              THEN /\ member' = member \ call.to_remove
                   /\ call' = [call EXCEPT !.pc = "add", !.changed = TRUE]
              ELSE /\ call' = [call EXCEPT !.pc = Handler(o)]
                   /\ UNCHANGED member
    /\ UNCHANGED <<exists, file, env, ap, v, now, orig, tamper, result, logdir,
                   requests, tasks>>

\* line 2584: await member.add_roles(target_role)
StaffAdd ==
    /\ call.op = "staff_assign"
    /\ call.pc = "add"
    /\ \E o \in Outcomes :
          IF o = "ok"
          THEN /\ member' = member \cup {call.unit}
               /\ call' = [call EXCEPT !.pc = "status", !.changed = TRUE]
          ELSE /\ call' = [call EXCEPT !.pc = Handler(o)]
               /\ UNCHANGED member
    /\ UNCHANGED <<exists, file, env, ap, v, now, orig, tamper, result, logdir,
                   requests, tasks>>

\* lines 2586-2589: the member status role is added when it is configured
\* and the member does not have it
StaffStatus ==
    /\ call.op = "staff_assign"
    /\ call.pc = "status"
    /\ \E configured \in BOOLEAN, o \in Outcomes :
          IF configured /\ MemberRole \notin member
          THEN IF o = "ok"
               THEN /\ member' = member \cup {MemberRole}
                    /\ call' = [call EXCEPT !.pc = "audit", !.changed = TRUE]
               ELSE /\ call' = [call EXCEPT !.pc = Handler(o)]
                    /\ UNCHANGED member
          ELSE /\ call' = [call EXCEPT !.pc = "audit"]
               /\ UNCHANGED member
    /\ UNCHANGED <<exists, file, env, ap, v, now, orig, tamper, result, logdir,
                   requests, tasks>>

\* lines 2591-2599: audit_log("staff_assign", ..., critical=True), then the
\* record is posted to the audit channel and the user is answered; an
\* exception from any of the three goes to the except clauses
StaffAudit ==
    /\ call.op = "staff_assign"
    /\ call.pc = "audit"
    /\ \/ /\ AuditLogStep("staff_assign", Some(Alice),
                           AssignDetails(call.unit), TRUE)
          /\ \E o \in Outcomes :
                call' = [call EXCEPT !.pc = IF o = "ok" THEN "done"
                                           ELSE Handler(o)]
       \/ /\ AuditLogOpenFailsStep("staff_assign", Some(Alice),
                                    AssignDetails(call.unit), TRUE)
          /\ call' = [call EXCEPT !.pc = "except"]
    /\ UNCHANGED <<requests, member, tasks>>

\* lines 2603-2610: except Exception: audit_log("staff_assign_error", ...,
\* critical=True); nothing catches what this call raises
StaffExcept ==
    /\ call.op = "staff_assign"
    /\ call.pc = "except"
    /\ \/ /\ AuditLogStep("staff_assign_error", Some(Alice),
                           AssignErrorDetails, TRUE)
          /\ call' = [call EXCEPT !.pc = "done"]
       \/ /\ AuditLogOpenFailsStep("staff_assign_error", Some(Alice),
                                    AssignErrorDetails, TRUE)
          /\ call' = [call EXCEPT !.pc = "raised"]
    /\ UNCHANGED <<requests, member, tasks>>

NextStaff ==
    \/ StaffStart
    \/ StaffRemove
    \/ StaffAdd
    \/ StaffStatus
    \/ StaffAudit
    \/ StaffExcept

\* The bot handling /staff assign, one invocation at a time.
SpecStaff == InitStaff /\ [][NextStaff]_vars

\* --------------------------------------------------------- task_store.py
\* The tasks table, by id (AUTOINCREMENT: 1, 2, ...).  A row keeps the columns
\* an operation writes after the insert; task_log, which no operation reads,
\* is left out.  The clock of utc_now() has a resolution of one second and
\* does not move while these operations run.

\* The most rows of the tasks table.
MaxTasks == 1

STATUSES == {"PENDING", "IN_PROGRESS", "HOLD", "DONE"}

\* status arguments: the four, and one that is none of them
StatusArgs == STATUSES \cup {"ARCHIVED"}

\* task ids an operation is called with: that of a row, or of none
TaskIds == 1..(MaxTasks + 1)

TaskRoles == {4, 5}

\* how a TaskStore method ended
TaskCall(op, ret) == [op |-> op, ret |-> ret]

LogUnchanged ==
    UNCHANGED <<exists, file, env, ap, v, now, orig, tamper, result, logdir,
                requests, member>>

\* create_task: INSERT ... VALUES (?, 'PENDING', ..., NULL)
CreateTask ==
    /\ Len(tasks) < MaxTasks
    /\ \E role \in TaskRoles :
          tasks' = Append(tasks,
                     [ status |-> "PENDING", assigned_role_id |-> role,
                       updated_at |-> now, message_id |-> None,
                       completed_by |-> None, completed_at |-> None ])
    /\ call' = TaskCall("create_task", "Task")
    /\ LogUnchanged

\* complete_task: status='DONE', completed_by, completed_at, updated_at
CompleteTask ==
    /\ \E id \in TaskIds :
          tasks' = IF id \in DOMAIN tasks
                   THEN [tasks EXCEPT ![id].status = "DONE",
                                      ![id].completed_by = Some(Alice.id),
                                      ![id].completed_at = Some(now),
                                      ![id].updated_at = now]
                   ELSE tasks
    /\ call' = TaskCall("complete_task", "None")
    /\ LogUnchanged

\* set_message_id
SetMessageId ==
    /\ \E id \in TaskIds :
          tasks' = IF id \in DOMAIN tasks
                   THEN [tasks EXCEPT ![id].message_id = Some(1),
                                      ![id].updated_at = now]
                   ELSE tasks
    /\ call' = TaskCall("set_message_id", "None")
    /\ LogUnchanged

\* lines 119-123 and 126-130: the status test, then UPDATE tasks SET
\* status=?, updated_at=?
SetStatus(op, id, status) ==
    IF status \notin STATUSES
    THEN /\ call' = TaskCall(op, "ValueError")
         /\ UNCHANGED tasks
    ELSE /\ tasks' = IF id \in DOMAIN tasks
                      THEN [tasks EXCEPT ![id].status = status,
                                         ![id].updated_at = now]
                      ELSE tasks
         /\ call' = TaskCall(op, "None")

\* update_status
UpdateStatus ==
    /\ \E id \in TaskIds, status \in StatusArgs :
          SetStatus("update_status", id, status)
    /\ LogUnchanged

\* update_status_by: the same, and a row of task_log
UpdateStatusBy ==
    /\ \E id \in TaskIds, status \in StatusArgs :
          SetStatus("update_status_by", id, status)
    /\ LogUnchanged

\* assign_role
AssignRole ==
    /\ \E id \in TaskIds, role \in TaskRoles :
          tasks' = IF id \in DOMAIN tasks
                   THEN [tasks EXCEPT ![id].assigned_role_id = role,
                                      ![id].updated_at = now]
                   ELSE tasks
    /\ call' = TaskCall("assign_role", "None")
    /\ LogUnchanged

NextTasks ==
    \/ CreateTask
    \/ CompleteTask
    \/ UpdateStatus
    \/ UpdateStatusBy
    \/ AssignRole
    \/ SetMessageId

\* A TaskStore on an empty database, its methods called in any order.
SpecTasks == InitBot /\ [][NextTasks]_vars

\* ------------------------------------------------------------ properties

IsPrefix(f, g) == Len(f) <= Len(g) /\ SubSeq(g, 1, Len(f)) = f

KeySet == { EntryKeys[k] : k \in 1..Len(EntryKeys) }

\* C1 (chain continuity): after any N appends by a single writer to a fresh
\* log, the verifier run on the file ends in success with N verified entries
\* and no legacy entry.
C1_ChainContinuity ==
    exists =>
        LET r == Verify(exists, file)
        IN  /\ r.pc = "ok"
            /\ r.verified_count = Len(file)
            /\ r.skipped_legacy = 0

\* C2 (chain link invariant): in a log written by a single writer, the first
\* record's prev_chain_hash is the sentinel and every later record's
\* prev_chain_hash is the chain_hash of the record before it.
C2_ChainLinked ==
    \A k \in 1..Len(file) :
        file[k].obj.prev_chain_hash =
            IF k = 1 THEN Sentinel ELSE file[k - 1].obj.chain_hash

\* C8 (append-only log): every step of the appender and of the verifier leaves
\* the file that was there as a prefix of the file that is there after it, the
\* file once created stays, and a step that changes the file adds exactly one
\* complete line holding one record with the nine fields.
C8_AppendOnly ==
    [][ /\ IsPrefix(file, file')
        /\ (exists => exists')
        /\ (file' # file =>
              /\ Len(file') = Len(file) + 1
              /\ file'[Len(file')].kind = "json"
              /\ DOMAIN file'[Len(file')].obj = KeySet) ]_vars

\* C8's case: appends were made to a file that already held lines, and the
\* verifier has run over it.
C8_Witness == Len(file) >= 2 /\ v.pc = "ok" /\ v.read >= 2

\* C10 (verifier beside a single appender): the verifier never reports a chain
\* failure, and when it ends in success its verified count is the number of
\* lines it read, all of them lines of the log.
C10_VerifierBesideAppender ==
    /\ v.pc # "fail"
    /\ (v.pc = "ok" => v.verified_count = v.read /\ v.read <= Len(file))

\* --- after one edit by an attacker (SpecTamper)

OrigOk == Verify(TRUE, orig).pc = "ok"

\* C3 (payload mutation): when the details value of one chained record of a
\* log that verified is changed and its hashes are left alone, the verifier
\* reports failure, at the line of that record.
C3_MutationDetected ==
    (tamper.kind = "mutate" /\ OrigOk) =>
        LET r == Verify(TRUE, file)
        IN  r.pc = "fail" /\ FailedAt(r) = tamper.line

\* C3's case: the record in the middle of a three-line log was changed.
C3_Witness ==
    /\ tamper.kind = "mutate" /\ OrigOk
    /\ tamper.line = 2 /\ Len(file) = 3
    /\ FailedAt(Verify(TRUE, file)) = 2

\* C4 (reordering): when two adjacent chained records of a log that verified
\* are swapped, the verifier reports failure at the earlier of the two lines.
C4_SwapDetected ==
    (tamper.kind = "swap" /\ OrigOk) =>
        LET r == Verify(TRUE, file)
        IN  r.pc = "fail" /\ FailedAt(r) = tamper.line

\* C4's case: lines 2 and 3 were swapped.
C4_Witness ==
    /\ tamper.kind = "swap" /\ OrigOk
    /\ tamper.line = 2
    /\ FailedAt(Verify(TRUE, file)) = 2

\* the first chained line of f at or after line k (0: none)
FirstChainedFrom(f, k) ==
    IF \E j \in ChainedLines(f) : j >= k
    THEN CHOOSE j \in ChainedLines(f) :
            j >= k /\ \A h \in ChainedLines(f) : h >= k => j <= h
    ELSE 0

\* C5 as stated (insertion): any non-blank line inserted between or before the
\* records of a log that verified makes the verifier report failure.
C5_AnyInsertionDetected ==
    (tamper.kind = "insert" /\ OrigOk) => Verify(TRUE, file).pc # "ok"

\* C5 as amended: a line that carries both chain fields, inserted before a
\* chained record of a log that verified, makes the verifier report failure,
\* at the inserted line or at the first chained record after it; an inserted
\* line without the chain fields is skipped as legacy and the log still
\* verifies, with the same verified count and one more legacy entry.
C5_ChainedInsertionDetected ==
    (tamper.kind = "insert" /\ OrigOk) =>
        LET r == Verify(TRUE, file)
            o == Verify(TRUE, orig)
            j == FirstChainedFrom(orig, tamper.line)
        IN  IF tamper.arg = "chained"
            THEN j # 0 =>
                    /\ r.pc = "fail"
                    /\ FailedAt(r) \in {tamper.line, j + 1}
            ELSE /\ r.pc = "ok"
                 /\ r.verified_count = o.verified_count
                 /\ r.skipped_legacy = o.skipped_legacy + 1

\* C5's case: a well-formed record inserted between two records passes where
\* it stands and breaks the chain at the record after it.
C5_Witness ==
    /\ tamper.kind = "insert" /\ OrigOk
    /\ tamper.arg = "chained" /\ tamper.line >= 2
    /\ FailedAt(Verify(TRUE, file)) = tamper.line + 1

\* C6 (authenticated tail): with a signing secret configured, rewriting a
\* record's payload and recomputing the chain from there on, the signatures
\* left as they were, is detected: the verifier does not end in success.
C6_ForgedTailDetected ==
    (tamper.kind = "forge" /\ env # NoSecret /\ OrigOk) =>
        Verify(TRUE, file).pc # "ok"

\* C7 (truncation boundary): deleting the last K lines of a log that verified
\* leaves a log that verifies; its verified count is the number of chained
\* lines left, N - K for a log of N chained records.
C7_TruncationUndetected ==
    (tamper.kind = "truncate" /\ OrigOk) =>
        LET r == Verify(TRUE, file)
        IN  /\ r.pc = "ok"
            /\ r.verified_count = Cardinality(ChainedLines(file))
            /\ (ChainedLines(orig) = 1..Len(orig) =>
                    r.verified_count = Len(orig) - tamper.line)

\* C7's case: the last two of three chained records were deleted.
C7_Witness ==
    /\ tamper.kind = "truncate" /\ OrigOk
    /\ Len(orig) = 3 /\ ChainedLines(orig) = 1..3
    /\ tamper.line = 2
    /\ Verify(TRUE, file).verified_count = 1

\* --- two appenders (SpecRace)

\* C9 (concurrent appenders): whenever two consecutive records carry the same
\* prev_chain_hash and the lines up to the first of them verify, the verifier
\* reports failure at the second of them.
C9_SamePrevFailsAtSecond ==
    \A k \in 1..(Len(file) - 1) :
        ( /\ file[k].obj.prev_chain_hash = file[k + 1].obj.prev_chain_hash
          /\ Verify(TRUE, SubSeq(file, 1, k)).pc = "ok" )
        => LET r == Verify(TRUE, file)
           IN  r.pc = "fail" /\ FailedAt(r) = k + 1

\* C9's case: two appenders read the same last hash before either wrote, so
\* two short records in a row carry the same prev_chain_hash, and the
\* verifier reports the second.
C9_Witness ==
    /\ Len(file) >= 2
    /\ file[1].obj.prev_chain_hash = file[2].obj.prev_chain_hash
    /\ LineBytes(file[1]) < BlockSize
    /\ FailedAt(Verify(TRUE, file)) = 2

\* --- a log found on disk, and faults (SpecFaults)

\* the file without its last line
Front(f) == SubSeq(f, 1, Len(f) - 1)

\* C11 (partial final line tolerated): when the last line of the file is an
\* unterminated, unparsable piece of a record and the lines before it verify,
\* the verifier ends in success, with the counts of the lines before it.
C11_PartialFinalLineTolerated ==
    ( /\ Len(file) >= 1
      /\ file[Len(file)].kind = "partial"
      /\ Verify(TRUE, Front(file)).pc = "ok" )
    => LET r == Verify(exists, file)
           o == Verify(TRUE, Front(file))
       IN  /\ r.pc = "ok"
           /\ r.verified_count = o.verified_count
           /\ r.skipped_legacy = o.skipped_legacy

\* C12 (verifier always reaches a terminal result): whatever the log file
\* holds, the verifier ends in success or in a reported chain failure, never
\* in an unhandled error.
C12_VerifierTerminal ==
    exists => Verify(exists, file).pc \in {"ok", "fail"}

\* the lines of f that parse as an object without the chain fields
LegacyLines(f) == { k \in 1..Len(f) : f[k].kind = "json" /\ IsLegacy(f[k].obj) }

\* --- a log that begins with legacy lines (SpecLegacy)

\* C13 (legacy tolerance): a log of L legacy lines followed by N records
\* appended by audit_log verifies, with L legacy entries and N verified.
C13_LegacyThenAppended ==
    exists =>
        LET r == Verify(exists, file)
        IN  /\ r.pc = "ok"
            /\ r.skipped_legacy = Cardinality(LegacyLines(file))
            /\ r.verified_count = Cardinality(ChainedLines(file))

\* --- one appender on a fresh log (Spec)

\* C14 (bootstrap determinism): a call of audit_log that returns, made when
\* the log file is missing or empty, returns a record whose prev_chain_hash
\* is the sentinel, and leaves the file existing with that record as its
\* only line.
C14_Bootstrap ==
    [][ (FileSize(file) = 0 /\ now' # now /\ result'.kind = "returned") =>
            /\ result'.entry.prev_chain_hash = Sentinel
            /\ exists'
            /\ file' = <<JsonLine(result'.entry)>> ]_vars

\* C14's case: the first call was made and returned.
C14_Witness ==
    /\ now = 2 /\ result.kind = "returned"
    /\ file = <<JsonLine(result.entry)>>
    /\ result.entry.prev_chain_hash = Sentinel
    /\ result.entry.chain_hash # Sentinel

\* C15 (unsigned mode): without a signing secret every record of the log has
\* the empty signature, and the log verifies, every record counted.
C15_UnsignedMode ==
    (env = NoSecret /\ exists) =>
        /\ \A k \in 1..Len(file) : file[k].obj.signature_hmac_sha256 = <<>>
        /\ LET r == Verify(exists, file)
           IN  r.pc = "ok" /\ r.verified_count = Len(file)

\* C16 (signed mode): with a signing secret every record's signature is not
\* empty and is the HMAC, under the secret, of the canonical payload of the
\* record's six base fields, whatever its prev_chain_hash and its place in
\* the log; two records with different timestamps have different signatures.
C16_SignedMode ==
    env # NoSecret =>
        \A k \in 1..Len(file) :
            LET e == file[k].obj
            IN  /\ e.signature_hmac_sha256 # <<>>
                /\ e.signature_hmac_sha256 =
                       Sign(CanonicalJson(VerifierBase(e)), GetSecret(env))
                /\ \A j \in 1..Len(file) :
                       file[j].obj.timestamp # e.timestamp =>
                           file[j].obj.signature_hmac_sha256
                               # e.signature_hmac_sha256

\* C16's case: two calls with the same event, actor, details and critical,
\* at different times, one linked to the other, signed differently.
C16_Witness ==
    /\ env # NoSecret /\ Len(file) >= 2
    /\ LET a == file[1].obj
           b == file[2].obj
       IN  /\ a.details = b.details /\ a.details # <<>>
           /\ a.critical = b.critical
           /\ a.event = b.event /\ a.user_id = b.user_id
           /\ a.timestamp # b.timestamp
           /\ b.prev_chain_hash = a.chain_hash
           /\ a.signature_hmac_sha256 # b.signature_hmac_sha256

\* --- a log found on disk, and faults (SpecFaults), continued

\* C17 (append I/O failure): a call of audit_log in which the open for append
\* raises ends in that error, hands no record to its caller, reads the clock
\* once, and leaves the log file as it was.
C17_OpenFailure ==
    [][ (now' # now /\ result'.fault = "open") =>
            /\ result'.kind = "raised"
            /\ "entry" \notin DOMAIN result'
            /\ file' = file
            /\ exists' = exists
            /\ now' = now + 1 ]_vars

\* C17's case: the open failed on a log that holds a record.
C17_Witness ==
    /\ result.kind = "raised" /\ result.fault = "open"
    /\ ChainedLines(file) # {}

\* the last non-blank line of f (0: none)
LastNonBlank(f) ==
    LET idx == { i \in 1..Len(f) : f[i].kind # "blank" }
    IN  IF idx = {} THEN 0 ELSE Max(idx)

\* the log is missing, is empty, or its last non-blank line does not parse
NoLastRecord(ex, f) ==
    \/ ~ex
    \/ FileSize(f) = 0
    \/ /\ LastNonBlank(f) # 0
       /\ f[LastNonBlank(f)].kind \in {"partial", "garbage"}

\* C18 (chain-lookup read failure is swallowed): a call of audit_log made
\* when the log is missing, is empty, cannot be read, or has a last non-blank
\* line that does not parse, and that can open the log for append and write,
\* returns a record whose prev_chain_hash is the sentinel, after writing it
\* where the file ended.
C18_ReadFailureSwallowed ==
    [][ ( /\ now' # now
          /\ result'.fault \notin {"open", "write"}
          /\ (NoLastRecord(exists, file) \/ result'.fault = "read") ) =>
            /\ result'.kind = "returned"
            /\ result'.entry.prev_chain_hash = Sentinel
            /\ file' = WriteLine(file, result'.entry)
            /\ exists' ]_vars

\* C18's case: the call met a line of garbage after a record, and wrote its
\* own record after it, linked to the sentinel.
C18_Witness ==
    /\ Len(file) = 3
    /\ IsChained(file[1])
    /\ file[2].kind = "garbage"
    /\ result.kind = "returned" /\ result.fault = "none"
    /\ file[3] = JsonLine(result.entry)
    /\ result.entry.prev_chain_hash = Sentinel

\* C19 (the returned record is the committed record): after a call of
\* audit_log that returned, the record returned has the nine fields and is
\* the JSON object of the last line of the log file.
C19_ReturnedIsCommitted ==
    result.kind = "returned" =>
        /\ DOMAIN result.entry = KeySet
        /\ Len(file) >= 1
        /\ file[Len(file)] = JsonLine(result.entry)

\* the chain hash the verifier expects at line k of f when the lines before
\* it pass: that of the last chained line before k, else the sentinel
PrevBefore(f, k) ==
    LET idx == { j \in ChainedLines(f) : j < k }
    IN  IF idx = {} THEN Sentinel ELSE f[Max(idx)].obj.chain_hash

\* C20 (the verifier stops at the first mismatch): at the first chained line
\* k whose prev_chain_hash is not the expected one or whose chain_hash is not
\* the recomputed one, the verifier ends in failure, reports k (blank and
\* legacy lines counted) with the expected and found values of both hashes,
\* has read no line after k, and has counted the chained lines before k.
C20_StopsAtFirstMismatch ==
    \A k \in ChainedLines(file) :
        LET prev == PrevBefore(file, k)
            expected_chain == Sha256Hex(prev, Canonical(VerifierBase(file[k].obj)))
        IN  ( /\ Verify(TRUE, SubSeq(file, 1, k - 1)).pc = "ok"
              /\ \/ file[k].obj.prev_chain_hash # prev
                 \/ file[k].obj.chain_hash # expected_chain )
            => LET r == Verify(TRUE, file)
               IN  /\ r.pc = "fail"
                   /\ r.report = << [ line |-> k,
                                      expected_prev |-> prev,
                                      found_prev |-> file[k].obj.prev_chain_hash,
                                      expected_chain |-> expected_chain,
                                      found_chain |-> file[k].obj.chain_hash ] >>
                   /\ r.read = k
                   /\ r.verified_count =
                          Cardinality({ j \in ChainedLines(file) : j < k })

\* C20's case: a blank line, a record, and a record that does not link to it:
\* the failure is reported at line 3 with one entry verified.
C20_Witness ==
    /\ Len(file) = 3
    /\ file[1].kind = "blank"
    /\ IsChained(file[2]) /\ IsChained(file[3])
    /\ file[3].obj.prev_chain_hash # file[2].obj.chain_hash
    /\ LET r == Verify(TRUE, file)
       IN  FailedAt(r) = 3 /\ r.verified_count = 1 /\ r.read = 3

\* --- the verifier and the appender on any content (SpecContent)

\* C21 (the verifier never mutates the log): no step of the verifier script,
\* whatever the file holds and however the script ends, changes the content
\* of the log file or whether it exists.
C21_VerifierReadOnly ==
    [][ v' # v => (file' = file /\ exists' = exists) ]_vars

\* C21's case: the script has ended in an error at the second line or later,
\* after a record it verified, over a file that is still there.
C21_Witness ==
    /\ v.pc = "error" /\ v.read >= 2
    /\ Len(file) >= 2
    /\ Verify(TRUE, SubSeq(file, 1, v.read - 1)).verified_count = 1

\* --- details of every shape (SpecCanon)

\* C22 (hash round trip): for every record in the log, the chain hash
\* recomputed from the stored prev_chain_hash and the canonical payload
\* rebuilt from the six stored fields is the stored chain_hash.
C22_HashRoundTrip ==
    \A k \in 1..Len(file) :
        LET e == file[k].obj
        IN  Sha256Hex(e.prev_chain_hash, Canonical(VerifierBase(e))) = e.chain_hash

\* a sequence of <<key, value>> pairs as the mapping it stands for
RECURSIVE AsMapping(_)
AsMapping(pairs) ==
    [ k \in { pairs[i][1] : i \in 1..Len(pairs) } |->
        LET i == CHOOSE j \in 1..Len(pairs) : pairs[j][1] = k
        IN  IF IsMappingKey(k) THEN AsMapping(pairs[i][2]) ELSE pairs[i][2] ]

\* the base payload the call that returned entry hashed, its details
\* replaced by d
BaseWith(entry, d) == [VerifierBase(entry) EXCEPT !.details = d]

\* C29 (canonicalization stability): the payload a call hashed is the payload
\* of every base that differs from its own only in the order the keys of
\* details were inserted, at either level, and the verifier's function gives
\* the same serialization as the appender's.
C29_CanonicalStable ==
    result.kind = "returned" =>
        \A d \in CanonDetails :
            AsMapping(d[1]) = AsMapping(result.entry.details) =>
                LET b == BaseWith(result.entry, d[1])
                IN  /\ result.entry.chain_hash =
                           ChainHash(result.entry.prev_chain_hash, CanonicalJson(b))
                    /\ Canonical(b) = CanonicalJson(b)

\* C29's case: a call whose details had geo first and x first inside geo,
\* hashed as a call with the keys inserted the other way round is.
C29_Witness ==
    /\ result.kind = "returned"
    /\ result.entry.details =
           << <<"geo", << <<"x", "1">>, <<"ip", "2">> >> >>, <<"ip", "10.0.0.1">> >>
    /\ result.entry.chain_hash =
           ChainHash(result.entry.prev_chain_hash,
                     CanonicalJson(BaseWith(result.entry,
                        << <<"ip", "10.0.0.1">>,
                           <<"geo", << <<"ip", "2">>, <<"x", "1">> >> >> >>)))

\* --- one appender on a fresh log (Spec), continued

\* C23 (the backward scan finds the last record whatever its length): when
\* the last non-blank line of the log is a record with a chain_hash,
\* _last_chain_hash returns that chain_hash.
C23_ScanFindsLast ==
    ( /\ exists
      /\ LastNonBlank(file) # 0
      /\ file[LastNonBlank(file)].kind = "json"
      /\ "chain_hash" \in DOMAIN file[LastNonBlank(file)].obj )
    => LastChainHash(exists, file) = file[LastNonBlank(file)].obj.chain_hash

\* --- a log that begins with legacy lines (SpecLegacy), continued

\* the base payload of record e with critical the other way
FlipCritical(e) == [VerifierBase(e) EXCEPT !.critical = ~@]

\* C24 as stated (the critical flag has no effect): the chain_hash and the
\* signature of every record are those the same call would have produced
\* with critical the other way.
C24_CriticalNoEffect ==
    \A k \in ChainedLines(file) :
        LET e == file[k].obj
        IN  /\ e.chain_hash = ChainHash(e.prev_chain_hash, CanonicalJson(FlipCritical(e)))
            /\ e.signature_hmac_sha256 = Sign(CanonicalJson(FlipCritical(e)), GetSecret(env))

\* C24 as amended: critical is one of the six hashed and signed fields: the
\* chain_hash of every record, and its signature when a secret is set, are
\* computed from the payload that holds its critical, and differ from those
\* the same call would have produced with critical the other way; without a
\* secret the signature is empty either way.
C24_CriticalIsHashed ==
    \A k \in ChainedLines(file) :
        LET e == file[k].obj
            flipped == CanonicalJson(FlipCritical(e))
        IN  /\ e.chain_hash = ChainHash(e.prev_chain_hash, CanonicalJson(VerifierBase(e)))
            /\ e.chain_hash # ChainHash(e.prev_chain_hash, flipped)
            /\ e.signature_hmac_sha256 = Sign(CanonicalJson(VerifierBase(e)), GetSecret(env))
            /\ IF env = NoSecret
               THEN e.signature_hmac_sha256 = <<>>
               ELSE e.signature_hmac_sha256 # Sign(flipped, GetSecret(env))

\* C24's case: a signed record with critical true and one with critical
\* false, alike in event, actor and details.
C24_Witness ==
    /\ env # NoSecret
    /\ \E j, k \in ChainedLines(file) :
          /\ file[j].obj.critical /\ ~file[k].obj.critical
          /\ file[j].obj.details = file[k].obj.details
          /\ file[j].obj.chain_hash #
                ChainHash(file[j].obj.prev_chain_hash,
                          CanonicalJson(FlipCritical(file[j].obj)))

\* --- a log found on disk, and faults (SpecFaults), continued

\* C25 (no partial line is ever written): no line of the log file is an
\* unterminated piece of a record.
C25_NoPartialLine ==
    \A k \in 1..Len(file) : file[k].kind # "partial"

\* --- the process around the appender (SpecProcess)

\* C26 (directory and file creation on append): a call of audit_log made
\* when the log file or its directory is missing returns a record and leaves
\* the directory and the file existing, the record the file's only line.
C26_CreatesWhatIsMissing ==
    [][ (now' # now /\ (~exists \/ ~logdir)) =>
            /\ result'.kind = "returned"
            /\ logdir' /\ exists'
            /\ file' = WriteLine(<<>>, result'.entry) ]_vars

\* the key a record was signed with (NoSecret: it is not signed)
SigKey(e) ==
    IF e.signature_hmac_sha256 = <<>> THEN NoSecret ELSE e.signature_hmac_sha256[1]

\* C27 (the signing secret is read once per process): every record the
\* process appended is signed as its first record is: with the same key, or
\* not at all.
C27_SecretReadOnce ==
    \A k \in 1..Len(file) : SigKey(file[k].obj) = SigKey(file[1].obj)

\* --- blank lines put into the log (SpecBlank)

\* g is f with one blank line put in
IsBlankInsertion(f, g) ==
    \E k \in 1..(Len(f) + 1) : g = InsertAt(f, k, BlankLine)

\* the verifier ends the same way, with the same counts, on f and on g
SameOutcome(f, g) ==
    LET o == Verify(TRUE, f)
        r == Verify(TRUE, g)
    IN  /\ r.pc = o.pc
        /\ r.verified_count = o.verified_count
        /\ r.skipped_legacy = o.skipped_legacy

\* the verifier's part of C28: a blank line put into the log leaves the
\* verifier's outcome and counts as they were
BlankLeavesOutcome ==
    [][ IsBlankInsertion(file, file') => SameOutcome(file, file') ]_vars

\* C28 (blank lines are skipped): a blank line put anywhere into the log
\* leaves the verifier's outcome and counts as they were, and a call of
\* audit_log made when blank lines follow the last record returns a record
\* whose prev_chain_hash is that record's chain_hash.
C28_BlankLinesSkipped ==
    [][ /\ IsBlankInsertion(file, file') => SameOutcome(file, file')
        /\ ( /\ now' # now
             /\ result'.kind = "returned"
             /\ LastNonBlank(file) # 0
             /\ LastNonBlank(file) < Len(file)
             /\ IsChained(file[LastNonBlank(file)]) )
           => result'.entry.prev_chain_hash =
                 file[LastNonBlank(file)].obj.chain_hash ]_vars

\* --- the verifier and the appender on any content (SpecContent), continued

\* C30 (verification success is preserved by append): a call of audit_log
\* that returns, made on a log that verifies, leaves a log that verifies,
\* with one more verified entry and as many legacy entries, and the
\* prev_chain_hash of the record it returns is the chain hash the verifier
\* expected next.
C30_SuccessPreserved ==
    [][ ( /\ now' # now
          /\ result'.kind = "returned"
          /\ Verify(exists, file).pc = "ok" )
        => LET o == Verify(exists, file)
               r == Verify(exists', file')
           IN  /\ r.pc = "ok"
               /\ r.verified_count = o.verified_count + 1
               /\ r.skipped_legacy = o.skipped_legacy
               /\ result'.entry.prev_chain_hash = o.prev ]_vars

\* C31: audit_log does not look at the chain, so it succeeds on a log that
\* fails verification; and when verify_log reports the chain broken at line k
\* of a file, it reports the same line, with the same expected and found
\* values, after every further append.
C31_FailurePermanent ==
    [][ (now' # now /\ Verify(exists, file).pc = "fail")
        => /\ result'.kind = "returned"
           /\ Verify(exists', file').pc = "fail"
           /\ Verify(exists', file').report = Verify(exists, file).report ]_vars


\* C32: the verifier's outcome depends only on the six payload fields,
\* prev_chain_hash and chain_hash of each line, a missing critical read as
\* false, a missing details as {} and another missing payload field as null:
\* changing or deleting signature_hmac_sha256, adding a key, or deleting a
\* payload key that held the value read for a missing one, leaves the
\* outcome, the counts and the report as they were.
C32_UnhashedFieldsFree ==
    tamper.kind \in {"signature", "nosignature", "addkey", "dropdefault"}
    => Verify(TRUE, file) = Verify(TRUE, orig)

\* a signed log of two records that verifies, the signature of its first
\* record deleted
C32_Witness ==
    /\ tamper.kind = "nosignature"
    /\ tamper.line = 1
    /\ orig[1].obj.signature_hmac_sha256 # <<>>
    /\ "signature_hmac_sha256" \notin DOMAIN file[1].obj
    /\ Verify(TRUE, file).pc = "ok"
    /\ Verify(TRUE, file).verified_count = 2


\* C33: when a log of two or more chained records verifies and the line of
\* a record that is not the last one is deleted, verify_log reports the chain
\* broken at the line of the record that followed the deleted one (which now
\* has the deleted record's line number; line 1 when the first was deleted).
C33_DeletionDetected ==
    ( /\ tamper.kind = "delete"
      /\ Len(orig) >= 2
      /\ ChainedLines(orig) = 1..Len(orig)
      /\ Verify(TRUE, orig).pc = "ok"
      /\ tamper.line < Len(orig) )
    => /\ Verify(TRUE, file).pc = "fail"
       /\ FailedAt(Verify(TRUE, file)) = tamper.line

\* the second of three records deleted from a log that verified
C33_Witness ==
    /\ tamper.kind = "delete"
    /\ tamper.line = 2
    /\ Len(orig) = 3
    /\ ChainedLines(orig) = 1..3
    /\ Verify(TRUE, orig).pc = "ok"
    /\ file = <<orig[1], orig[3]>>
    /\ FailedAt(Verify(TRUE, file)) = 2


\* C34: a call of audit_log with details that cannot be serialized raises
\* before the file is opened for append: the file is not created, no line
\* and no piece of a line is added, and the next call links to the same
\* record as it would have without the failed call.
C34_SerializationFailure ==
    [][ (result'.kind = "raised" /\ result'.fault = "serialize")
        => /\ file' = file
           /\ exists' = exists
           /\ LastChainHash(exists', file') = LastChainHash(exists, file) ]_vars

\* a call with details holding a set has raised on a log of one record,
\* which the next call will link to
C34_Witness ==
    /\ result = Raised("serialize")
    /\ Len(file) = 1
    /\ IsChained(file[1])
    /\ LastChainHash(exists, file) = file[1].obj.chain_hash


\* the reason has_permission is to log for a denial
DenialReason(allowed) ==
    IF allowed = {} THEN "no_roles_configured" ELSE "missing_role"

\* the call added one line to the log: this permission_denied record
AppendedDenial(f, g, c) ==
    /\ Len(g) = Len(f) + 1
    /\ SubSeq(g, 1, Len(f)) = f
    /\ g[Len(g)].kind = "json"
    /\ g[Len(g)].obj.event = Some("permission_denied")
    /\ SortKeys(g[Len(g)].obj.details)
         = << <<"permission", c.key>>, <<"reason", DenialReason(c.allowed)>> >>

\* C35: a has_permission call that returns False has appended exactly one
\* permission_denied record that names the permission key and the reason
\* (no_roles_configured when no role is configured for the key, missing_role
\* otherwise); a call that returns True appends nothing; and a call whose
\* append fails raises, and returns neither.
C35_DenialsAudited ==
    [][ (call' # call /\ call'.op = "has_permission")
        => /\ call'.ret = "False"
                => (call'.allowed \cap call'.roles = {}
                    /\ AppendedDenial(file, file', call'))
           /\ call'.ret = "True"
                => (call'.allowed \cap call'.roles # {}
                    /\ file' = file /\ exists' = exists /\ now' = now)
           /\ (now' # now /\ result'.kind = "raised")
                => (call'.ret = "raised" /\ file' = file) ]_vars

\* a user whose roles are not among the configured ones was refused, and the
\* record of it is the second line of the log
C35_Witness ==
    /\ call.op = "has_permission"
    /\ call.ret = "False"
    /\ call.allowed = {1}
    /\ call.roles = {2}
    /\ Len(file) = 2
    /\ SortKeys(file[2].obj.details)
         = << <<"permission", call.key>>, <<"reason", "missing_role">> >>


\* the last line of the log is the rust_control record of this invocation
ControlRecorded(f, c) ==
    /\ f # <<>>
    /\ f[Len(f)].kind = "json"
    /\ f[Len(f)].obj.event = Some("rust_control")
    /\ f[Len(f)].obj.user_id = Some(Alice.id)
    /\ f[Len(f)].obj.timestamp[1] >= c.at
    /\ \E i \in 1..Len(f[Len(f)].obj.details) :
          f[Len(f)].obj.details[i] = <<"command", c.cmd>>

\* C36: in the SAM and HQ commands and buttons a request goes to the Rust+
\* service only after ensure_rust_permission returned True and the
\* rust_control record of the invoking user was appended; an invocation in
\* which the permission was denied or an append raised sends no request.
C36_AuditBeforeAction ==
    [][ /\ requests' # requests
            => /\ call.op = "command"
               /\ call.guild
               /\ call.decision = "granted"
               /\ ControlRecorded(file, call)
               /\ requests' = Append(requests, EntityRequest(call.cmd))
        /\ (call'.op = "command" /\ call'.pc \in {"refused", "raised"})
            => Len(requests') = call'.sent ]_vars

\* a second request was sent, each after its own rust_control record
C36_Witness ==
    /\ Len(requests) = 2
    /\ call.op = "command"
    /\ call.pc = "done"
    /\ call.sent = 1
    /\ ControlRecorded(file, call)
    /\ Len(file) = 2


\* the log holds a critical staff_assign or staff_assign_error record that
\* was written during this invocation
AssignRecorded(f, c) ==
    \E k \in 1..Len(f) :
        /\ f[k].kind = "json"
        /\ f[k].obj.event \in {Some("staff_assign"), Some("staff_assign_error")}
        /\ f[k].obj.critical
        /\ f[k].obj.timestamp[1] >= c.at

\* C37: an invocation of the staff assign command that changed at least one
\* role of the target member has appended a staff_assign or a
\* staff_assign_error record, critical=true, by the time it ends, also when
\* a later role operation of the invocation failed.
C37_RoleChangesAudited ==
    ( /\ call.op = "staff_assign"
      /\ call.pc = "done"
      /\ call.changed )
    => AssignRecorded(file, call)


\* completed_by and completed_at are set exactly when the status is DONE
CompletionFollowsStatus(row) ==
    /\ (row.completed_by # None) <=> (row.status = "DONE")
    /\ (row.completed_at # None) <=> (row.status = "DONE")

\* C38: after any sequence of create_task, complete_task, update_status,
\* update_status_by, assign_role and set_message_id, every task's status is
\* one of PENDING, IN_PROGRESS, HOLD, DONE, and its completed_by and
\* completed_at are non-null exactly when its status is DONE; update_status
\* with another status raises ValueError and changes nothing.
C38_TaskInvariant ==
    [][ /\ \A id \in DOMAIN tasks' :
              /\ tasks'[id].status \in STATUSES
              /\ CompletionFollowsStatus(tasks'[id])
        /\ (call' # call /\ call'.op = "update_status"
             /\ call'.ret = "ValueError") => tasks' = tasks ]_vars


=============================================================================
